---- MODULE Spec2Model ----
(***************************************************************************)
(* Wire Master level generator (src/unnamed/part_005, generatorHelpers in  *)
(* src/unnamed/part_007) and the part of the game engine that consumes a   *)
(* generated level (src/utils/wireEngine.ts).                              *)
(*                                                                         *)
(* JavaScript numbers are modelled exactly.  A 32-bit word is a pair       *)
(* <<hi, lo>> of 16-bit halves; the state of the linear congruential       *)
(* generator is a sign and a 32-bit magnitude, because the seed handed to  *)
(* it is a signed int32 (the result of ^) and % keeps the sign of the      *)
(* dividend.                                                               *)
(***************************************************************************)
EXTENDS Integers, Sequences, FiniteSets, TLC

\* ------------------------------------------------------------------ bounds
MaxGridSize == 4
MaxWireCount == 21
MaxLevel == 4
MaxClockTicks == 1
MaxRotation == 1
MaxCacheLevel == 2
MaxTimers == 2
MaxCalls == 2
MaxSide == 6
MaxSeedIndex == 59
MaxSegmentCount == 4
MaxArrayLength == 5
MaxBoardSide == 15
MaxEmptyCells == 2
MaxObstacles == 1
MaxWires == 2
MaxStripCols == 3
MaxPathLength == 3

\* ------------------------------------------------------- program constants
maxAttempts == 10
TwoTo16 == 65536
LcgMulHi == 25
LcgMulLo == 26125
LcgIncHi == 15470
LcgIncLo == 62303
LcgIncrement == 1013904223
LcgMultiplier == 1664525
LevelMul == 48271
LevelShift == 8192
SaltHi == 57005
SaltLo == 48879
AttemptMulHi == 40503
AttemptMulLo == 31153
AttemptShift == 128
AbsoluteMinFloor == 4
DateNowBase == 2000000000
TOTAL_LEVELS == 300
ProgressSpan == 299
CacheLimit == 50
PreGenerateLimit == 300
PreGenerateAhead == 2

Min(a, b) == IF a < b THEN a ELSE b
Max(a, b) == IF a > b THEN a ELSE b

\* ------------------------------------------------------- 32-bit arithmetic
\* a xor b for 0 <= a, b < 2^n, bit by bit.
RECURSIVE XorBits(_, _, _)
XorBits(a, b, n) ==
  IF n = 0 THEN 0
  ELSE ((a + b) % 2) + 2 * XorBits(a \div 2, b \div 2, n - 1)

RECURSIVE OrBits(_, _, _)
OrBits(a, b, n) ==
  IF n = 0 THEN 0
  ELSE (IF (a % 2) + (b % 2) > 0 THEN 1 ELSE 0) + 2 * OrBits(a \div 2, b \div 2, n - 1)

Xor32(x, y) == <<XorBits(x[1], y[1], 16), XorBits(x[2], y[2], 16)>>
Or32(x, y) == <<OrBits(x[1], y[1], 16), OrBits(x[2], y[2], 16)>>

\* ToInt32(n * k) for a natural n < 2^16 and a 16-bit constant k given as
\* 8-bit halves, without leaving the 31-bit range in any intermediate.
MulSmall(n, k) ==
  LET kl == k % 256
      kh == k \div 256
      p0 == n * kl
      p1 == n * kh
      low == p0 + (p1 % 256) * 256
  IN  <<((p1 \div 256) + (low \div TwoTo16)) % TwoTo16, low % TwoTo16>>

\* ToInt32(n * (kHi * 2^16 + kLo)) for a natural n < 2^16.
MulWord(n, kHi, kLo) ==
  LET lowPart == MulSmall(n, kLo)
      highPart == MulSmall(n, kHi)
  IN  <<(lowPart[1] + highPart[2]) % TwoTo16, lowPart[2]>>

\* The signed value of a 32-bit word, as sign and magnitude.
ToSigned(w) ==
  IF w[1] < 32768 THEN [neg |-> FALSE, hi |-> w[1], lo |-> w[2]]
  ELSE LET nlo == (TwoTo16 - w[2]) % TwoTo16
           nhi == (TwoTo16 - 1 - w[1] + (IF w[2] = 0 THEN 1 ELSE 0)) % TwoTo16
       IN  [neg |-> TRUE, hi |-> nhi, lo |-> nlo]

\* ------------------------------------------------------------ seeds
\* baseSeed = (levelNumber * 48271) ^ ((levelNumber << 13) | (levelNumber >> 19)) ^ 0xDEADBEEF
\* for 0 <= levelNumber < 2^16 (levelNumber >> 19 is then 0).
BaseSeedWord(levelNumber) ==
  Xor32(Xor32(MulWord(levelNumber, 0, LevelMul),
              Or32(MulWord(levelNumber, 0, LevelShift), <<0, 0>>)),
        <<SaltHi, SaltLo>>)

\* attemptSeed = baseSeed ^ (attempt * 2654435761) ^ ((attempt << 7) | (attempt >> 25))
AttemptSeedWord(levelNumber, attempt) ==
  Xor32(Xor32(BaseSeedWord(levelNumber),
              MulWord(attempt, AttemptMulHi, AttemptMulLo)),
        Or32(MulWord(attempt, 0, AttemptShift), <<0, 0>>))

BaseSeed(levelNumber) == ToSigned(BaseSeedWord(levelNumber))
AttemptSeed(levelNumber, attempt) == ToSigned(AttemptSeedWord(levelNumber, attempt))

\* ------------------------------------------------------------ SeededRandom
\* next(): seed = (seed * 1664525 + 1013904223) % 4294967296, where % keeps the
\* sign of the dividend.  The product is below 2^53, so the double is exact.
SeededNext(s) ==
  LET low == s.lo * LcgMulLo
      mid == s.hi * LcgMulLo + s.lo * LcgMulHi + (low \div TwoTo16)
      plo == low % TwoTo16
      phi == mid % TwoTo16
  IN  IF ~s.neg
      THEN LET l == plo + LcgIncLo
               h == phi + LcgIncHi + (l \div TwoTo16)
           IN  [neg |-> FALSE, hi |-> h % TwoTo16, lo |-> l % TwoTo16]
      ELSE IF s.hi = 0 /\ s.lo <= LcgIncrement \div LcgMultiplier
      THEN LET v == LcgIncrement - s.lo * LcgMultiplier
           IN  [neg |-> FALSE, hi |-> v \div TwoTo16, lo |-> v % TwoTo16]
      ELSE LET l == plo - LcgIncLo
               borrow == IF l < 0 THEN 1 ELSE 0
               h == phi - LcgIncHi - borrow
           IN  [neg |-> TRUE, hi |-> (h + 2 * TwoTo16) % TwoTo16,
                lo |-> (l + TwoTo16) % TwoTo16]

\* Math.floor((seed / 4294967296) * n) for the current seed and 1 <= n < 2^15.
FloorScaled(s, n) ==
  LET low == s.lo * n
      mid == s.hi * n + (low \div TwoTo16)
      q == mid \div TwoTo16
      exact == (mid % TwoTo16 = 0) /\ (low % TwoTo16 = 0)
  IN  IF ~s.neg THEN q ELSE IF exact THEN 0 - q ELSE 0 - q - 1

\* nextInt(min, max) after next() has advanced the seed to s.
SeededNextInt(s, min, max) == FloorScaled(s, max - min + 1) + min

\* next() < 0.5 and next() < 0.25 after next() has advanced the seed to s.
BelowHalf(s) == s.neg \/ s.hi < 32768
BelowQuarter(s) == s.neg \/ s.hi < 16384


\* ------------------------------------------------------------ JS arrays
\* array.slice(start, end): negative indices count from the end, both are
\* clamped to the array, and an empty range gives [].
Slice(array, start, end) ==
  LET n == Len(array)
      from == IF start < 0 THEN Max(n + start, 0) ELSE Min(start, n)
      to == IF end < 0 THEN Max(n + end, 0) ELSE Min(end, n)
  IN  IF to > from THEN SubSeq(array, from + 1, to) ELSE <<>>

Reverse(array) == [k \in 1..Len(array) |-> array[Len(array) + 1 - k]]

\* for (x = a; x <= b; x++) and for (x = b; x >= a; x--), as the values visited.
Upward(a, b) == [k \in 1..(b - a + 1) |-> a + k - 1]
Downward(b, a) == [k \in 1..(b - a + 1) |-> b - k + 1]

Cells(path) == {path[k] : k \in 1..Len(path)}

\* ------------------------------------------------------------ path builders
\* generateRandomizedZigzag after its four draws.
ZigzagStraight(rows, cols, startFromTop, startFromLeft, horizontal, reverseZigzag) ==
  [k \in 1..(rows * cols) |->
     IF horizontal
     THEN LET row == (k - 1) \div cols
              pos == (k - 1) % cols
          IN  <<IF startFromTop THEN row ELSE rows - 1 - row,
                IF startFromLeft THEN pos ELSE cols - 1 - pos>>
     ELSE LET col == (k - 1) \div rows
              pos == (k - 1) % rows
          IN  <<IF startFromTop THEN pos ELSE rows - 1 - pos,
                IF startFromLeft THEN col ELSE cols - 1 - col>>]

ZigzagPath(rows, cols, startFromTop, startFromLeft, horizontal, reverseZigzag) ==
  [k \in 1..(rows * cols) |->
     IF horizontal
     THEN LET row == (k - 1) \div cols
              pos == (k - 1) % cols
              actualRow == IF startFromTop THEN row ELSE rows - 1 - row
              shouldReverse == IF reverseZigzag THEN row % 2 = 1 ELSE row % 2 = 0
              goingRight == IF startFromLeft THEN ~shouldReverse ELSE shouldReverse
          IN  <<actualRow, IF goingRight THEN pos ELSE cols - 1 - pos>>
     ELSE LET col == (k - 1) \div rows
              pos == (k - 1) % rows
              actualCol == IF startFromLeft THEN col ELSE cols - 1 - col
              shouldReverse == IF reverseZigzag THEN col % 2 = 1 ELSE col % 2 = 0
              goingDown == IF startFromTop THEN ~shouldReverse ELSE shouldReverse
          IN  <<IF goingDown THEN pos ELSE rows - 1 - pos, actualCol>>]

generateRandomizedZigzag(rows, cols, rng) ==
  LET s1 == SeededNext(rng)
      s2 == SeededNext(s1)
      s3 == SeededNext(s2)
      s4 == SeededNext(s3)
  IN  [path |-> ZigzagPath(rows, cols, BelowHalf(s1), BelowHalf(s2),
                           BelowHalf(s3), BelowHalf(s4)),
       rng |-> s4, hang |-> FALSE]

\* The while loop of generateSpiralPath, one ring per unfolding.
RECURSIVE SpiralRings(_, _, _, _)
SpiralRings(top, bottom, left, right) ==
  IF ~(top <= bottom /\ left <= right) THEN <<>>
  ELSE LET across == [k \in 1..(right - left + 1) |-> <<top, Upward(left, right)[k]>>]
           top1 == top + 1
           down == [k \in 1..(bottom - top1 + 1) |-> <<Upward(top1, bottom)[k], right>>]
           right1 == right - 1
           back == IF top1 <= bottom
                   THEN [k \in 1..(right1 - left + 1) |-> <<bottom, Downward(right1, left)[k]>>]
                   ELSE <<>>
           bottom1 == IF top1 <= bottom THEN bottom - 1 ELSE bottom
           up == IF left <= right1
                 THEN [k \in 1..(bottom1 - top1 + 1) |-> <<Downward(bottom1, top1)[k], left>>]
                 ELSE <<>>
           left1 == IF left <= right1 THEN left + 1 ELSE left
       IN  across \o down \o back \o up \o SpiralRings(top1, bottom1, left1, right1)

generateSpiralPathShort(rows, cols, rng) ==
  LET s1 == SeededNext(rng)
      spiralInward == BelowHalf(s1)
      inward == SpiralRings(0, rows - 1, 0, cols - 2)
  IN  [path |-> IF spiralInward THEN inward ELSE Reverse(inward),
       rng |-> s1, hang |-> FALSE]
generateSpiralPath(rows, cols, rng) ==
  LET s1 == SeededNext(rng)
      spiralInward == BelowHalf(s1)
      inward == SpiralRings(0, rows - 1, 0, cols - 1)
  IN  [path |-> IF spiralInward THEN inward ELSE Reverse(inward),
       rng |-> s1, hang |-> FALSE]

\* The band loop of generateSnakePath for segmentSize >= 1: the lines of one band,
\* then the next band.  goingRight/goingDown flips after every line.
RECURSIVE SnakeBands(_, _, _, _, _, _)
SnakeBands(lines, width, segmentSize, current, forward, horizontal) ==
  IF ~(current < lines) THEN <<>>
  ELSE LET endLine == Min(current + segmentSize, lines)
           count == endLine - current
           band == [k \in 1..(count * width) |->
                      LET line == current + ((k - 1) \div width)
                          pos == (k - 1) % width
                          fwd == IF ((k - 1) \div width) % 2 = 0 THEN forward ELSE ~forward
                          at == IF fwd THEN pos ELSE width - 1 - pos
                      IN  IF horizontal THEN <<line, at>> ELSE <<at, line>>]
           after == IF count % 2 = 0 THEN forward ELSE ~forward
       IN  band \o SnakeBands(lines, width, segmentSize, endLine, after, horizontal)

\* With segmentSize <= 0 the while loop never advances: the call does not return.
generateSnakePath(rows, cols, rng) ==
  LET s1 == SeededNext(rng)
      segmentSize == SeededNextInt(s1, 2, Max(2, rows \div 2))
      s2 == SeededNext(s1)
      horizontal == BelowHalf(s2)
  IN  IF segmentSize <= 0 THEN [path |-> <<>>, rng |-> s2, hang |-> TRUE]
      ELSE [path |-> IF horizontal
                     THEN SnakeBands(rows, cols, segmentSize, 0, TRUE, TRUE)
                     ELSE SnakeBands(cols, rows, segmentSize, 0, TRUE, FALSE),
            rng |-> s2, hang |-> FALSE]

\* The first occurrence of every coordinate, in order (uniquePath).
RECURSIVE UniquePath(_, _)
UniquePath(path, k) ==
  IF k > Len(path) THEN <<>>
  ELSE IF \E j \in 1..(k - 1) : path[j] = path[k] THEN UniquePath(path, k + 1)
  ELSE <<path[k]>> \o UniquePath(path, k + 1)

\* The strategy switch: strategies[index] is undefined for an index outside 0..2,
\* and the switch then takes its default branch.
StrategyName(index) ==
  IF index = 0 THEN "zigzag"
  ELSE IF index = 1 THEN "spiral"
  ELSE IF index = 2 THEN "snake" ELSE "undefined"

BuildStrategy(rows, cols, selectedStrategy, rng) ==
  IF selectedStrategy = "spiral" THEN generateSpiralPath(rows, cols, rng)
  ELSE IF selectedStrategy = "snake" THEN generateSnakePath(rows, cols, rng)
  ELSE generateRandomizedZigzag(rows, cols, rng)

\* The de-duplication and the length check at the end of
\* generateCompleteHamiltonianPath, given the path the strategy built.
CheckedPath(rows, cols, selectedStrategy, built, uniquePath) ==
  IF built.hang
  THEN [path |-> <<>>, rng |-> built.rng, hang |-> TRUE,
        strategy |-> selectedStrategy, deduplicated |-> FALSE]
  ELSE IF Len(uniquePath) # rows * cols
  THEN [path |-> generateRandomizedZigzag(rows, cols, built.rng).path,
        rng |-> generateRandomizedZigzag(rows, cols, built.rng).rng,
        hang |-> FALSE, strategy |-> selectedStrategy, deduplicated |-> TRUE]
  ELSE [path |-> uniquePath, rng |-> built.rng, hang |-> FALSE,
        strategy |-> selectedStrategy, deduplicated |-> FALSE]

UniqueOf(rows, cols, selectedStrategy, built) ==
  CheckedPath(rows, cols, selectedStrategy, built, UniquePath(built.path, 1))

StrategyPath(rows, cols, selectedStrategy, rng) ==
  UniqueOf(rows, cols, selectedStrategy,
           BuildStrategy(rows, cols, selectedStrategy, rng))

StrategyDrawn(rows, cols, s1) ==
  StrategyPath(rows, cols, StrategyName(SeededNextInt(s1, 0, 2)), s1)

generateCompleteHamiltonianPath(rows, cols, rng) ==
  StrategyDrawn(rows, cols, SeededNext(rng))

\* ------------------------------------------------------------ partition
\* The for loop of partitionPathIntoSegments from iteration i on.
RECURSIVE PartitionLoop(_, _, _, _, _, _, _, _)
PartitionLoop(path, segmentCount, i, startIdx, rng, segments, absoluteMinSize, maxSegmentSize) ==
  LET totalCells == Len(path)
      remainingCells == totalCells - startIdx
      remainingSegments == segmentCount - i
      lastSegment == Slice(path, startIdx, totalCells)
      maxPossible == remainingCells - (remainingSegments - 1) * absoluteMinSize
      minSize == Max(absoluteMinSize, absoluteMinSize)
      maxSize == Min(maxPossible, maxSegmentSize)
      drawn == SeededNext(rng)
      segmentSize == IF minSize = maxSize THEN minSize
                     ELSE SeededNextInt(drawn, minSize, maxSize)
      rngAfter == IF minSize = maxSize THEN rng ELSE drawn
      endIdx == startIdx + segmentSize
  IN  IF i = segmentCount - 1
      THEN IF Len(lastSegment) < absoluteMinSize
           THEN [ok |-> FALSE, error |-> "Last segment too small",
                 segments |-> segments, rng |-> rng]
           ELSE [ok |-> TRUE, error |-> "",
                 segments |-> Append(segments, lastSegment), rng |-> rng]
      ELSE IF maxPossible < absoluteMinSize
           THEN [ok |-> FALSE, error |-> "Invalid segment range",
                 segments |-> segments, rng |-> rng]
           ELSE PartitionLoop(path, segmentCount, i + 1, endIdx, rngAfter,
                              Append(segments, Slice(path, startIdx, endIdx)),
                              absoluteMinSize, maxSegmentSize)

AbsoluteMinSize(totalCells, segmentCount) ==
  Max(AbsoluteMinFloor, (totalCells \div segmentCount) \div 2)

\* Math.floor(avgSize * 1.8); the double product is never below the exact one.
MaxSegmentSize(totalCells, segmentCount) ==
  ((totalCells \div segmentCount) * 18) \div 10

partitionPathIntoSegmentsDrawFirst(path, segmentCount, rng) ==
  LET totalCells == Len(path)
      absoluteMinSize == AbsoluteMinSize(totalCells, segmentCount)
  IN  IF totalCells < segmentCount * absoluteMinSize
      THEN [ok |-> FALSE, error |-> "Cannot partition", segments |-> <<>>,
            rng |-> SeededNext(rng)]
      ELSE PartitionLoop(path, segmentCount, 0, 0, rng, <<>>, absoluteMinSize,
                         MaxSegmentSize(totalCells, segmentCount))
partitionPathIntoSegments(path, segmentCount, rng) ==
  LET totalCells == Len(path)
      absoluteMinSize == AbsoluteMinSize(totalCells, segmentCount)
  IN  IF totalCells < segmentCount * absoluteMinSize
      THEN [ok |-> FALSE, error |-> "Cannot partition", segments |-> <<>>, rng |-> rng]
      ELSE PartitionLoop(path, segmentCount, 0, 0, rng, <<>>, absoluteMinSize,
                         MaxSegmentSize(totalCells, segmentCount))

\* ------------------------------------------------------------ colours
allColors ==
  <<"red", "blue", "green", "yellow", "orange", "purple", "pink", "cyan", "lime",
    "brown", "magenta", "teal", "indigo", "violet", "coral", "turquoise", "gold",
    "crimson", "navy", "salmon">>

\* selectRandomColors(count), given what shuffleArray(allColors) returned: that
\* shuffle draws from Math.random, not from the seeded source.
selectRandomColorsRepeating(count, shuffled) ==
  IF count > Len(allColors) \/ count <= 0
  THEN [ok |-> FALSE, colors |-> <<>>]
  ELSE [ok |-> TRUE, colors |-> [k \in 1..count |-> shuffled[1]]]

selectRandomColors(count, shuffled) ==
  IF count > Len(allColors) THEN [ok |-> FALSE, colors |-> <<>>]
  ELSE IF count <= 0 THEN [ok |-> FALSE, colors |-> <<>>]
  ELSE LET selected == SubSeq(shuffled, 1, count)
       IN  IF Cardinality(Cells(selected)) # count
           THEN [ok |-> FALSE, colors |-> <<>>]
           ELSE [ok |-> TRUE, colors |-> selected]

\* SeededRandom.shuffle: the array is indexed from 0 here.  nextInt can return a
\* negative j; result[j] is then a property of the array object, undefined until
\* a swap has stored something there.
RECURSIVE ShuffleLoop(_, _, _)
ShuffleLoop(result, i, rng) ==
  IF ~(i > 0) THEN [result |-> result, rng |-> rng]
  ELSE LET s == SeededNext(rng)
           j == SeededNextInt(s, 0, i)
           swapped == [result EXCEPT ![i] = result[j], ![j] = result[i]]
       IN  ShuffleLoop(swapped, i - 1, s)

SeededShuffle(array, rng) ==
  LET n == Len(array)
      start == [k \in (0 - n)..(n - 1) |-> IF k >= 0 THEN array[k + 1] ELSE "undefined"]
      done == ShuffleLoop(start, n - 1, rng)
  IN  [array |-> [k \in 1..n |-> done.result[k - 1]], rng |-> done.rng]

\* ------------------------------------------------------------ solution
\* pathSegments.forEach((segment, wireId) => segment.forEach(coord => solution.push(...)))
RECURSIVE SolutionCells(_, _, _, _)
SolutionCells(pathSegments, shuffledColors, wireId, globalPathIndex) ==
  IF wireId >= Len(pathSegments) THEN <<>>
  ELSE LET segment == pathSegments[wireId + 1]
           cells == [k \in 1..Len(segment) |->
                       [coord |-> segment[k], wireId |-> wireId,
                        color |-> shuffledColors[wireId + 1],
                        pathIndex |-> globalPathIndex + k - 1]]
       IN  cells \o SolutionCells(pathSegments, shuffledColors, wireId + 1,
                                  globalPathIndex + Len(segment))

RECURSIVE SumLen(_, _)
SumLen(seqs, k) == IF k > Len(seqs) THEN 0 ELSE Len(seqs[k]) + SumLen(seqs, k + 1)

SolutionFailed(built, at) ==
  [status |-> "throw", solution |-> <<>>, rng |-> at, path |-> built.path,
   segments |-> <<>>, strategy |-> built.strategy, deduplicated |-> built.deduplicated]

\* Step 4 of generateCompleteSolution and its final validation.
SolutionBuilt(totalCells, built, parts, mixed, solution) ==
  IF Len(solution) # totalCells THEN SolutionFailed(built, mixed.rng)
  ELSE [status |-> "ok", solution |-> solution, rng |-> mixed.rng,
        path |-> built.path, segments |-> parts.segments,
        strategy |-> built.strategy, deduplicated |-> built.deduplicated]

ColorsShuffled(totalCells, built, parts, mixed) ==
  SolutionBuilt(totalCells, built, parts, mixed,
                SolutionCells(parts.segments, mixed.array, 0, 0))

\* Step 3: the colours selected, then shuffled by the seeded source.
ColorsPicked(totalCells, wireCount, built, parts, picked) ==
  IF ~picked.ok THEN SolutionFailed(built, parts.rng)
  ELSE IF Len(picked.colors) # wireCount THEN SolutionFailed(built, parts.rng)
  ELSE ColorsShuffled(totalCells, built, parts, SeededShuffle(picked.colors, parts.rng))

\* Step 2: the partition and the check that its segments add up.
PathPartitioned(totalCells, wireCount, shuffled, built, parts) ==
  IF ~parts.ok THEN SolutionFailed(built, parts.rng)
  ELSE IF SumLen(parts.segments, 1) # totalCells THEN SolutionFailed(built, parts.rng)
  ELSE ColorsPicked(totalCells, wireCount, built, parts,
                    selectRandomColors(wireCount, shuffled))

\* Step 1: the covering path and the check of its length.
PathBuilt(totalCells, wireCount, shuffled, built) ==
  IF built.hang
  THEN [status |-> "hang", solution |-> <<>>, rng |-> built.rng, path |-> <<>>,
        segments |-> <<>>, strategy |-> built.strategy, deduplicated |-> FALSE]
  ELSE IF Len(built.path) # totalCells THEN SolutionFailed(built, built.rng)
  ELSE PathPartitioned(totalCells, wireCount, shuffled, built,
                       partitionPathIntoSegments(built.path, wireCount, built.rng))

generateCompleteSolution(rows, cols, wireCount, rng, shuffled) ==
  PathBuilt(rows * cols, wireCount, shuffled,
            generateCompleteHamiltonianPath(rows, cols, rng))

\* ------------------------------------------------------------ wires
\* [...cells].sort((a, b) => a.pathIndex - b.pathIndex): pathIndex is unique.
SortByPathIndex(cells) ==
  [k \in 1..Len(cells) |->
     CHOOSE c \in Cells(cells) :
       Cardinality({d \in Cells(cells) : d.pathIndex < c.pathIndex}) = k - 1]

\* The wire of one ordered path, flipped or not (wires.push in extractWiresFromSolution).
WireOf(color, path, shouldFlip) ==
  [color |-> color,
   start |-> IF shouldFlip THEN path[Len(path)] ELSE path[1],
   end |-> IF shouldFlip THEN path[1] ELSE path[Len(path)],
   solutionPath |-> IF shouldFlip THEN Reverse(path) ELSE path]

\* for (const { color, path } of orderedPaths): one draw per wire.
RECURSIVE FlipLoop(_, _, _)
FlipLoop(orderedPaths, k, rng) ==
  IF k > Len(orderedPaths) THEN [wires |-> <<>>, rng |-> rng]
  ELSE LET s == SeededNext(rng)
           rest == FlipLoop(orderedPaths, k + 1, s)
       IN  [wires |-> <<WireOf(orderedPaths[k].color, orderedPaths[k].path,
                               BelowQuarter(s))>> \o rest.wires,
            rng |-> rest.rng]

\* The number of cells of all solution paths, and whether a cell is met twice
\* while they are walked in order (allSolutionCells).
AllPathCells(wires) == UNION {Cells(wires[k].solutionPath) : k \in 1..Len(wires)}
PathsTotal(wires) == SumLen([k \in 1..Len(wires) |-> wires[k].solutionPath], 1)

\* portPositions: a start or end already seen among the earlier ports.
DuplicatePort(wires) ==
  \E k \in 1..Len(wires) :
     \/ \E j \in 1..(k - 1) : wires[k].start \in {wires[j].start, wires[j].end}
     \/ \E j \in 1..(k - 1) : wires[k].end \in {wires[j].start, wires[j].end}

\* The validations at the end of extractWiresFromSolution.
WiresValid(wires, rows, cols) ==
  /\ Cardinality({wires[k].color : k \in 1..Len(wires)}) = Len(wires)
  /\ (rows # 0 /\ cols # 0) =>
       /\ PathsTotal(wires) = Cardinality(AllPathCells(wires))
       /\ Cardinality(AllPathCells(wires)) = rows * cols
  /\ \A k \in 1..Len(wires) : wires[k].start # wires[k].end
  /\ ~DuplicatePort(wires)

WiresFlipped(rows, cols, flipped) ==
  IF WiresValid(flipped.wires, rows, cols)
  THEN [ok |-> TRUE, wires |-> flipped.wires, rng |-> flipped.rng]
  ELSE [ok |-> FALSE, wires |-> <<>>, rng |-> flipped.rng]

\* The cells of every wire id, in the order the ids first occur (wireMap), each
\* sorted by pathIndex (orderedPaths).
OrderedPaths(solution, wireIds) ==
  [k \in 1..Len(wireIds) |->
     [wireId |-> wireIds[k],
      color |-> SelectSeq(solution, LAMBDA c : c.wireId = wireIds[k])[1].color,
      path |-> [n \in 1..Len(SelectSeq(solution, LAMBDA c : c.wireId = wireIds[k])) |->
                  SortByPathIndex(SelectSeq(solution, LAMBDA c : c.wireId = wireIds[k]))[n].coord]]]

PathsOrdered(rows, cols, rng, orderedPaths) ==
  IF \E k \in 1..Len(orderedPaths) : Len(orderedPaths[k].path) < 2
  THEN [ok |-> FALSE, wires |-> <<>>, rng |-> rng]
  ELSE WiresFlipped(rows, cols, FlipLoop(orderedPaths, 1, rng))

extractWiresFromSolution(solution, rows, cols, rng) ==
  PathsOrdered(rows, cols, rng,
               OrderedPaths(solution,
                            UniquePath([k \in 1..Len(solution) |-> solution[k].wireId], 1)))

validatePuzzle(wires, rows, cols) ==
  LET inside(c) == ~(c[1] < 0 \/ c[1] >= rows \/ c[2] < 0 \/ c[2] >= cols)
  IN  /\ \A k \in 1..Len(wires) : inside(wires[k].start) /\ inside(wires[k].end)
      /\ ~DuplicatePort(wires)
      /\ ~(Len(wires) < 1)

\* ------------------------------------------------------------ generateLevel
\* One pass through the body of the while loop, from seedRandom(attemptSeed) to
\* the return or the catch.
AttemptThrown(made, at) ==
  [status |-> "throw", wires |-> <<>>, rng |-> at, path |-> made.path,
   segments |-> made.segments, strategy |-> made.strategy,
   deduplicated |-> made.deduplicated]

\* Steps 2 and 4 of the attempt: the wires extracted, then validatePuzzle.
WiresExtracted(rows, cols, made, extracted) ==
  IF ~extracted.ok THEN AttemptThrown(made, extracted.rng)
  ELSE IF ~validatePuzzle(extracted.wires, rows, cols)
  THEN AttemptThrown(made, extracted.rng)
  ELSE [status |-> "success", wires |-> extracted.wires, rng |-> extracted.rng,
        path |-> made.path, segments |-> made.segments,
        strategy |-> made.strategy, deduplicated |-> made.deduplicated]

SolutionMade(rows, cols, made) ==
  IF made.status = "hang"
  THEN [status |-> "hang", wires |-> <<>>, rng |-> made.rng, path |-> <<>>,
        segments |-> <<>>, strategy |-> made.strategy, deduplicated |-> FALSE]
  ELSE IF made.status = "throw" THEN AttemptThrown(made, made.rng)
  ELSE WiresExtracted(rows, cols, made,
                      extractWiresFromSolution(made.solution, rows, cols, made.rng))

\* A pass that is seeded from what the unseeded source returned.
AttemptOutcomeUnseeded(config, levelNumber, attempt, shuffled) ==
  SolutionMade(config.gridSize, config.gridSize,
               generateCompleteSolution(config.gridSize, config.gridSize,
                                        config.wireCount,
                                        AttemptSeed(levelNumber,
                                          attempt + (CHOOSE k \in 1..Len(allColors) :
                                                       allColors[k] = shuffled[1]) - 1),
                                        shuffled))

AttemptOutcome(config, levelNumber, attempt, shuffled) ==
  SolutionMade(config.gridSize, config.gridSize,
               generateCompleteSolution(config.gridSize, config.gridSize,
                                        config.wireCount,
                                        AttemptSeed(levelNumber, attempt), shuffled))

\* const solutionPaths = wires.map(wire => wire.solutionPath || [])
SolutionPathsEndpointsOnly(wires) ==
  [k \in 1..Len(wires) |-> <<wires[k].start, wires[k].end>>]

SolutionPaths(wires) == [k \in 1..Len(wires) |-> wires[k].solutionPath]

\* The levelData object of a successful attempt (obstacles is undefined).
LevelDataOf(config, levelNumber, wires) ==
  [id |-> levelNumber,
   config |-> [size |-> config.gridSize, wireCount |-> Len(wires),
               gridShape |-> "square", difficulty |-> config.difficulty,
               optimalMoves |-> Len(wires)],
   wires |-> [k \in 1..Len(wires) |->
                [color |-> wires[k].color, start |-> wires[k].start, end |-> wires[k].end]],
   solution |-> SolutionPaths(wires)]

\* generateFallbackLevel, given what shuffleArray returned and what Date.now()
\* returned: the object has no solution property.
FallbackWireBeyond(i, color, gridSize) ==
  [color |-> color, start |-> <<i, 0>>, end |-> <<i, gridSize>>]
FallbackWire(i, color, gridSize) ==
  [color |-> color, start |-> <<i, 0>>, end |-> <<i, gridSize - 1>>]

generateFallbackLevelAllWires(gridSize, wireCount, difficulty, shuffled, now) ==
  LET picked == selectRandomColors(wireCount, shuffled)
      colors == picked.colors
      wires == [k \in 1..wireCount |-> FallbackWire(k - 1, colors[k], gridSize)]
  IN  IF ~picked.ok THEN [ok |-> FALSE, level |-> [undefined |-> TRUE]]
      ELSE [ok |-> TRUE,
            level |-> [id |-> now,
                       config |-> [size |-> gridSize, wireCount |-> Len(wires),
                                   gridShape |-> "square", difficulty |-> difficulty,
                                   optimalMoves |-> Len(wires)],
                       wires |-> wires]]

generateFallbackLevel(gridSize, wireCount, difficulty, shuffled, now) ==
  LET picked == selectRandomColors(wireCount, shuffled)
      colors == picked.colors
      wires == [k \in 1..Min(wireCount, gridSize) |->
                  FallbackWire(k - 1, colors[k], gridSize)]
  IN  IF ~picked.ok THEN [ok |-> FALSE, level |-> [undefined |-> TRUE]]
      ELSE [ok |-> TRUE,
            level |-> [id |-> now,
                       config |-> [size |-> gridSize, wireCount |-> Len(wires),
                                   gridShape |-> "square", difficulty |-> difficulty,
                                   optimalMoves |-> Len(wires)],
                       wires |-> wires]]

\* while (attempt < maxAttempts)
LoopContinuesOneMore(attempt) == attempt <= maxAttempts
LoopContinues(attempt) == attempt < maxAttempts

\* ------------------------------------------------------------ level configuration
getDifficultyForLevel(level) ==
  IF level <= 100
  THEN IF level <= 30 THEN "easy" ELSE IF level <= 70 THEN "medium" ELSE "hard"
  ELSE IF level <= 200
  THEN IF level <= 150 THEN "medium" ELSE "hard"
  ELSE IF level <= 250 THEN "hard" ELSE "expert"

\* The if chain that sets gridSize in getGeneratorConfig.
GridSizeFor(level) ==
  IF level <= 5 THEN 2
  ELSE IF level <= 15 THEN 3
  ELSE IF level <= 25 THEN 4
  ELSE IF level <= 40 THEN 5
  ELSE IF level <= 70 THEN 6
  ELSE IF level <= 100 THEN 7
  ELSE IF level <= 130 THEN 8
  ELSE IF level <= 165 THEN 9
  ELSE IF level <= 205 THEN 10
  ELSE IF level <= 250 THEN 11
  ELSE 12

\* Math.floor(levelProgress * k) for levelProgress = (level - 1) / 299 and an
\* integer k: the quotient is a whole number only for level 1 and level 300,
\* and is otherwise at least 1/299 away from one, so the double rounds alike.
ProgressFloor(level, k) == ((level - 1) * k) \div ProgressSpan

\* The grid-specific adjustments (they overwrite baseWires + progressionBonus
\* for every grid size).
WireCountForFromFour(gridSize, level) ==
  IF gridSize <= 4 THEN 2 + ProgressFloor(level, 2)
  ELSE IF gridSize = 5 THEN 2 + ProgressFloor(level, 3)
  ELSE IF gridSize = 6 THEN 3 + ProgressFloor(level, 4)
  ELSE IF gridSize = 7 THEN 4 + ProgressFloor(level, 5)
  ELSE IF gridSize = 8 THEN 5 + ProgressFloor(level, 7)
  ELSE IF gridSize = 9 THEN 6 + ProgressFloor(level, 9)
  ELSE IF gridSize = 10 THEN 8 + ProgressFloor(level, 12)
  ELSE IF gridSize = 11 THEN 10 + ProgressFloor(level, 15)
  ELSE 12 + ProgressFloor(level, 18)

WireCountFor(gridSize, level) ==
  IF gridSize = 2 THEN 1
  ELSE IF gridSize = 3 THEN 1 + ProgressFloor(level, 1)
  ELSE IF gridSize = 4 THEN 2 + ProgressFloor(level, 2)
  ELSE IF gridSize = 5 THEN 2 + ProgressFloor(level, 3)
  ELSE IF gridSize = 6 THEN 3 + ProgressFloor(level, 4)
  ELSE IF gridSize = 7 THEN 4 + ProgressFloor(level, 5)
  ELSE IF gridSize = 8 THEN 5 + ProgressFloor(level, 7)
  ELSE IF gridSize = 9 THEN 6 + ProgressFloor(level, 9)
  ELSE IF gridSize = 10 THEN 8 + ProgressFloor(level, 12)
  ELSE IF gridSize = 11 THEN 10 + ProgressFloor(level, 15)
  ELSE 12 + ProgressFloor(level, 18)

\* getGeneratorConfig: the fields of baseConfig the generator reads are
\* difficulty, gridSize and wireCount, the last two overwritten.
getGeneratorConfig(level) ==
  LET gridSize == GridSizeFor(level)
      minWiresForGrid == Max(1, (gridSize * 3) \div 10)
      maxWiresForGrid == Max(2, (gridSize * gridSize) \div 10)
  IN  [gridSize |-> gridSize,
       wireCount |-> Min(Max(WireCountFor(gridSize, level), minWiresForGrid),
                         maxWiresForGrid),
       difficulty |-> getDifficultyForLevel(level)]

\* ------------------------------------------------------------ inputs
GridSizes == 2..MaxGridSize
WireCounts == 1..MaxWireCount
Levels == 1..MaxLevel
GameLevels == 1..TOTAL_LEVELS
Configs == [gridSize : GridSizes, wireCount : WireCounts, difficulty : {"easy"}]

\* What Math.random can make of shuffleArray(allColors): some of its permutations.
Rotated(array, r) == [k \in 1..Len(array) |-> array[((k - 1 + r) % Len(array)) + 1]]
UnseededShuffles == {Rotated(allColors, r) : r \in 0..MaxRotation}

\* What Date.now() can return: milliseconds since the epoch, far above any level number.
Times == {DateNowBase + t : t \in 0..MaxClockTicks}

Undefined == [undefined |-> TRUE]
NullRandom == [null |-> TRUE]

\* resetRandom(): seededRandom = null, whatever it was.
resetRandomSkipped(current) == current
resetRandom(current) == NullRandom
NoAttempt == [status |-> "none", path |-> <<>>, segments |-> <<>>,
              strategy |-> "none", deduplicated |-> FALSE]

\* ------------------------------------------------------------ game engine
HasSolution(level) == "solution" \in DOMAIN level

WireId(index) == <<"wire", index>>

createEmptyGrid(rows, cols) ==
  [c \in (0..(rows - 1)) \X (0..(cols - 1)) |->
     [state |-> "EMPTY", color |-> "null", wireId |-> <<>>, isPort |-> FALSE,
      connectedTo |-> <<>>]]

\* levelData.wires.forEach in loadLevel: the start port, then the end port.
RECURSIVE PlacePorts(_, _, _)
PlacePorts(grid, wireData, k) ==
  IF k > Len(wireData) THEN grid
  ELSE LET port == [state |-> "ENDPOINT", color |-> wireData[k].color,
                    wireId |-> WireId(k - 1), isPort |-> TRUE, connectedTo |-> <<>>]
           withStart == IF wireData[k].start \in DOMAIN grid
                        THEN [grid EXCEPT ![wireData[k].start] = port] ELSE grid
           withEnd == IF wireData[k].end \in DOMAIN withStart
                      THEN [withStart EXCEPT ![wireData[k].end] = port] ELSE withStart
       IN  PlacePorts(withEnd, wireData, k + 1)

\* The grid and the wires loadLevel returns for a LevelData (it has no obstacles).
loadLevel(level) ==
  LET rows == level.config.size
      cols == level.config.size
  IN  [grid |-> PlacePorts(createEmptyGrid(rows, cols), level.wires, 1),
       wires |-> [k \in 1..Len(level.wires) |->
                    [id |-> WireId(k - 1), color |-> level.wires[k].color,
                     start |-> level.wires[k].start, end |-> level.wires[k].end,
                     path |-> <<>>, isComplete |-> FALSE,
                     requiredPathLength |->
                       IF HasSolution(level) /\ k <= Len(level.solution)
                       THEN <<Len(level.solution[k])>> ELSE <<>>]]]

\* path.forEach in setWirePath, from index k on; conflict records the console.error.
RECURSIVE SetPathCells(_, _, _, _, _)
SetPathCells(grid, wire, path, k, conflict) ==
  IF k > Len(path) THEN [grid |-> grid, conflict |-> conflict]
  ELSE LET cell == grid[path[k]]
       IN  IF cell.isPort THEN SetPathCells(grid, wire, path, k + 1, conflict)
           ELSE IF cell.state = "PATH" /\ cell.wireId # wire.id
           THEN SetPathCells(grid, wire, path, k + 1, TRUE)
           ELSE SetPathCells(
                  [grid EXCEPT ![path[k]] =
                     [state |-> "PATH", color |-> wire.color, wireId |-> wire.id,
                      isPort |-> cell.isPort,
                      connectedTo |-> IF k < Len(path) THEN path[k + 1]
                                      ELSE cell.connectedTo]],
                  wire, path, k + 1, conflict)

IsComplete(wire, path) ==
  LET startsAtStart == Len(path) > 0 /\ path[1] = wire.start
      endsAtEnd == Len(path) > 0 /\ path[Len(path)] = wire.end
      startsAtEnd == Len(path) > 0 /\ path[1] = wire.end
      endsAtStart == Len(path) > 0 /\ path[Len(path)] = wire.start
  IN  (startsAtStart /\ endsAtEnd) \/ (startsAtEnd /\ endsAtStart)

setWirePathOverwriting(grid, wire, path) ==
  [grid |-> [c \in DOMAIN grid |->
               IF c \in Cells(path)
               THEN [state |-> "PATH", color |-> wire.color, wireId |-> wire.id,
                     isPort |-> grid[c].isPort, connectedTo |-> grid[c].connectedTo]
               ELSE grid[c]],
   wire |-> [wire EXCEPT !.path = path, !.isComplete = IsComplete(wire, path)],
   conflict |-> FALSE]

setWirePath(grid, wire, path) ==
  LET set == SetPathCells(grid, wire, path, 1, FALSE)
  IN  [grid |-> set.grid,
       wire |-> [wire EXCEPT !.path = path, !.isComplete = IsComplete(wire, path)],
       conflict |-> set.conflict]

\* Math.round((filledCells / totalCells) * 100), or 0 for a grid without cells.
\* The double product and the exact quotient round apart only for ratios far
\* below 100 (first for 23 cells of 40), never where the result is 100.
calculateGridFilledPathsOnly(grid) ==
  LET counted == {c \in DOMAIN grid : grid[c].state # "OBSTACLE"}
      totalCells == Cardinality(counted)
      filledCells == Cardinality({c \in counted : grid[c].state = "PATH"})
  IN  IF totalCells > 0 THEN (200 * filledCells + totalCells) \div (2 * totalCells) ELSE 0

calculateGridFilled(grid) ==
  LET counted == {c \in DOMAIN grid : grid[c].state # "OBSTACLE"}
      totalCells == Cardinality(counted)
      filledCells == Cardinality({c \in counted : grid[c].state # "EMPTY"})
  IN  IF totalCells > 0 THEN (200 * filledCells + totalCells) \div (2 * totalCells) ELSE 0

areAllWiresComplete(wires) == \A k \in 1..Len(wires) : wires[k].isComplete

checkWinCondition(grid, wires) ==
  IF ~areAllWiresComplete(wires) THEN FALSE ELSE calculateGridFilled(grid) = 100

\* ------------------------------------------------------------ state
VARIABLES
  config,        \* the GeneratorConfig generateLevel is called with
  levelNumber,   \* its levelNumber
  pc,            \* where the call is: idle, attempting, success, fallback, threw, hung
  attempt,       \* the attempt counter of generateLevel
  seededRandom,  \* the module-level SeededRandom, or NullRandom
  lastAttempt,   \* locals of the attempt that ran last: path, segments, strategy
  levelData,     \* what the call returned
  previous,      \* what the call before it returned, for the same arguments
  game,          \* the engine: none, loaded
  grid,          \* the engine's grid
  wires,         \* the engine's wires
  replayed,      \* how many wires of the solution have been replayed
  conflict,      \* setWirePath has met a cell of another wire
  won,           \* the last checkWinCondition: unchecked, yes, no
  levelMap,      \* LevelCache.levelMap: its entries in insertion order
  timers,        \* the setTimeout callbacks of preGenerateNextLevels not yet run
  calls,         \* the generateLevel calls in progress, with their callers
  pathCall       \* a direct call of the path builder, the partitioner, the shuffle
                 \* or setWirePath

vars == <<config, levelNumber, pc, attempt, seededRandom, lastAttempt, levelData,
          previous, game, grid, wires, replayed, conflict, won, levelMap, timers, calls,
          pathCall>>

generatorVars == <<pc, attempt, seededRandom, lastAttempt, levelData, previous>>
gameVars == <<game, grid, wires, replayed, conflict, won>>
cacheVars == <<levelMap, timers, calls>>

Returned == pc \in {"success", "fallback"}

\* Nothing has been called yet.
NothingCalled ==
  /\ pc = "idle"
  /\ attempt = 0
  /\ seededRandom = NullRandom
  /\ lastAttempt = NoAttempt
  /\ levelData = Undefined
  /\ previous = Undefined
  /\ game = "none"
  /\ grid = <<>>
  /\ wires = <<>>
  /\ replayed = 0
  /\ conflict = FALSE
  /\ won = "unchecked"
  /\ levelMap = <<>>
  /\ timers = <<>>
  /\ calls = <<>>
  /\ pathCall = Undefined

Init ==
  /\ config \in Configs
  /\ levelNumber \in Levels
  /\ NothingCalled

\* generateLevel(config, levelNumber) up to the while loop: seedRandom(baseSeed).
\* The second call stands for a regeneration of the same level (the cache has
\* evicted it); the first result is kept to compare.
GenerateLevel ==
  /\ \/ pc = "idle"
     \/ Returned /\ previous = Undefined /\ game = "none"
  /\ previous' = levelData
  /\ levelData' = Undefined
  /\ pc' = "attempting"
  /\ attempt' = 0
  /\ seededRandom' = BaseSeed(levelNumber)
  /\ lastAttempt' = NoAttempt
  /\ UNCHANGED <<config, levelNumber, gameVars, cacheVars, pathCall>>

\* What one iteration of the while loop leaves behind, given its outcome.
AttemptDone(out) ==
  /\ lastAttempt' = [status |-> out.status, path |-> out.path,
                     segments |-> out.segments, strategy |-> out.strategy,
                     deduplicated |-> out.deduplicated]
  /\ IF out.status = "success"
     THEN /\ levelData' = LevelDataOf(config, levelNumber, out.wires)
          /\ seededRandom' = resetRandom(out.rng)
          /\ pc' = "success"
          /\ attempt' = attempt
     ELSE IF out.status = "hang"
     THEN /\ pc' = "hung"
          /\ seededRandom' = out.rng
          /\ UNCHANGED <<levelData, attempt>>
     ELSE /\ attempt' = attempt + 1
          /\ seededRandom' = out.rng
          /\ UNCHANGED <<levelData, pc>>

\* One iteration of the while loop.
Attempt ==
  /\ pc = "attempting"
  /\ LoopContinues(attempt)
  /\ \E shuffled \in UnseededShuffles :
       AttemptDone(AttemptOutcome(config, levelNumber, attempt, shuffled))
  /\ UNCHANGED <<config, levelNumber, previous, gameVars, cacheVars, pathCall>>

\* The loop is left: finally resetRandom(), then generateFallbackLevel.
Fallback ==
  /\ pc = "attempting"
  /\ ~LoopContinues(attempt)
  /\ seededRandom' = resetRandom(seededRandom)
  /\ \E shuffled \in UnseededShuffles, now \in Times :
       LET out == generateFallbackLevel(config.gridSize, config.wireCount,
                                        config.difficulty, shuffled, now)
       IN  IF out.ok
           THEN pc' = "fallback" /\ levelData' = out.level
           ELSE pc' = "threw" /\ UNCHANGED levelData
  /\ UNCHANGED <<config, levelNumber, attempt, lastAttempt, previous, gameVars, cacheVars, pathCall>>

\* loadLevel on the LevelData the call returned.
LoadLevel ==
  /\ Returned
  /\ game = "none"
  /\ game' = "loaded"
  /\ grid' = loadLevel(levelData).grid
  /\ wires' = loadLevel(levelData).wires
  /\ UNCHANGED <<config, levelNumber, generatorVars, replayed, conflict, won, cacheVars, pathCall>>

\* The hint replay: setWirePath for the next wire with its solution path.
ReplayWire ==
  /\ game = "loaded"
  /\ HasSolution(levelData)
  /\ replayed < Len(wires)
  /\ LET set == setWirePath(grid, wires[replayed + 1], levelData.solution[replayed + 1])
     IN  /\ grid' = set.grid
         /\ wires' = [wires EXCEPT ![replayed + 1] = set.wire]
         /\ conflict' = (conflict \/ set.conflict)
  /\ replayed' = replayed + 1
  /\ won' = "unchecked"
  /\ UNCHANGED <<config, levelNumber, generatorVars, game, cacheVars, pathCall>>

\* checkWinCondition on the engine's state.
CheckWin ==
  /\ game = "loaded"
  /\ won = "unchecked"
  /\ won' = IF checkWinCondition(grid, wires) THEN "yes" ELSE "no"
  /\ UNCHANGED <<config, levelNumber, generatorVars, game, grid, wires, replayed, conflict, cacheVars, pathCall>>

Next ==
  \/ GenerateLevel
  \/ Attempt
  \/ Fallback
  \/ LoadLevel
  \/ ReplayWire
  \/ CheckWin

Spec == Init /\ [][Next]_vars

\* A step of a call in progress: an iteration of the loop changes the attempt
\* counter or leaves the loop, and the step after the loop returns or throws.
CallStep ==
  /\ pc = "attempting"
  /\ pc' \in {"attempting", "success", "fallback", "threw", "hung"}
  /\ attempt' \in 0..maxAttempts
  /\ <<pc', attempt'>> # <<pc, attempt>>

\* The call is synchronous: while it is in progress, its next step is taken.
FairSpec == Spec /\ WF_<<pc, attempt>>(CallStep)

\* The game asks for the config of one of its levels.
ConfigInit ==
  /\ config = Undefined
  /\ levelNumber \in GameLevels
  /\ NothingCalled

GetGeneratorConfig ==
  /\ config = Undefined
  /\ config' = getGeneratorConfig(levelNumber)
  /\ UNCHANGED <<levelNumber, generatorVars, gameVars, cacheVars, pathCall>>

ConfigSpec == ConfigInit /\ [][GetGeneratorConfig]_vars

\* ------------------------------------------------------------ the level cache
\* The levels the game asks LevelCache.getLevel for, from the level the player
\* has reached (levelNumber) on, and the difficulties it passes: loadLevel passes
\* getDifficultyForLevel(levelId).
CacheLevels == 1..MaxCacheLevel
RequestLevels == {levelNumber + k : k \in 0..(MaxCacheLevel - 1)}
RequestDifficulties == {getDifficultyForLevel(level) : level \in RequestLevels}

\* const cacheKey = `${CACHE_VERSION}-${difficulty}-${levelNumber}`
CacheKey(difficulty, level) == <<"v43", difficulty, level>>

\* this.levelMap.has(cacheKey)
MapHas(map, key) == \E k \in 1..Len(map) : map[k].key = key

\* this.levelMap.set(cacheKey, level): a key already present keeps its place.
MapSet(map, key, level) ==
  IF MapHas(map, key)
  THEN [k \in 1..Len(map) |->
          IF map[k].key = key THEN [key |-> key, level |-> level] ELSE map[k]]
  ELSE Append(map, [key |-> key, level |-> level])

\* if (this.levelMap.size > 50) delete the first key
EvictOldest(map) == IF Len(map) > CacheLimit THEN Tail(map) ELSE map

\* The for loop of the timer callback from index i on: the first index whose
\* level has to be generated, or 0 when the loop ends without generating.
RECURSIVE NextToGenerate(_, _, _)
NextToGenerate(map, currentLevel, i) ==
  IF i > PreGenerateAhead THEN 0
  ELSE IF /\ currentLevel + i <= PreGenerateLimit
          /\ ~MapHas(map, CacheKey(getDifficultyForLevel(currentLevel + i), currentLevel + i))
       THEN i
       ELSE NextToGenerate(map, currentLevel, i + 1)

\* A call of generateLevel that has just begun: seedRandom(baseSeed) is done,
\* attempt is 0; the frame remembers who called and under which key the result
\* will be stored.
NewCall(task, key, level, currentLevel, i) ==
  [task |-> task, key |-> key, level |-> level, config |-> getGeneratorConfig(level),
   attempt |-> 0, phase |-> "loop", currentLevel |-> currentLevel, i |-> i,
   result |-> Undefined]

\* The generateLevel call the timer callback makes next from index i on, if any.
TimerCalls(map, currentLevel, i) ==
  LET j == NextToGenerate(map, currentLevel, i)
  IN  IF j = 0 THEN <<>>
      ELSE <<NewCall("timer", CacheKey(getDifficultyForLevel(currentLevel + j), currentLevel + j),
                     currentLevel + j, currentLevel, j)>>

Without(seq, k) == [n \in 1..(Len(seq) - 1) |-> IF n < k THEN seq[n] ELSE seq[n + 1]]

\* getRandom and its siblings: the seeded generator if one is set, else Math.random.
RandomSource(s) ==
  IF s = NullRandom THEN {AttemptSeed(level, 0) : level \in CacheLevels} ELSE {s}

\* A task (a getLevel call or a timer callback) starts only when the call stack
\* is empty: getLevel has no await before it returns and the timer callback is
\* an ordinary function, so each runs to completion.
CanRunAnyTime(stack) == TRUE
CanRun(stack) == stack = <<>>

CacheInit ==
  /\ config = Undefined
  /\ levelNumber = 1
  /\ NothingCalled

\* levelCache.getLevel(difficulty, level) up to the first statement of
\* generateLevel's loop, or in whole on a cache hit.
GetLevel ==
  /\ CanRun(calls)
  /\ Len(calls) < MaxCalls
  /\ \E difficulty \in RequestDifficulties, level \in RequestLevels :
       IF MapHas(levelMap, CacheKey(difficulty, level))
       THEN /\ Len(timers) < MaxTimers
            /\ timers' = Append(timers, level)
            /\ UNCHANGED <<calls, seededRandom, levelMap>>
       ELSE /\ calls' = Append(calls, NewCall("getLevel", CacheKey(difficulty, level),
                                              level, level, 0))
            /\ seededRandom' = BaseSeed(level)
            /\ UNCHANGED <<timers, levelMap>>
  /\ UNCHANGED <<config, levelNumber, pc, attempt, lastAttempt, levelData, previous, gameVars, pathCall>>

\* A setTimeout callback of preGenerateNextLevels begins.
TimerFire ==
  /\ CanRun(calls)
  /\ Len(calls) < MaxCalls
  /\ timers # <<>>
  /\ timers' = Tail(timers)
  /\ LET started == TimerCalls(levelMap, Head(timers), 1)
     IN  /\ calls' = calls \o started
         /\ seededRandom' = IF started = <<>> THEN seededRandom
                            ELSE BaseSeed(started[1].level)
  /\ UNCHANGED <<config, levelNumber, pc, attempt, lastAttempt, levelData, previous,
                 gameVars, pathCall, levelMap>>

\* seedRandom(attemptSeed) at the head of an iteration.
SeedAttempt ==
  /\ \E k \in 1..Len(calls) :
       /\ calls[k].phase = "loop"
       /\ seededRandom' = AttemptSeed(calls[k].level, calls[k].attempt)
       /\ calls' = [calls EXCEPT ![k].phase = "seeded"]
  /\ UNCHANGED <<config, levelNumber, pc, attempt, lastAttempt, levelData, previous,
                 gameVars, pathCall, levelMap, timers>>

\* What the rest of the iteration leaves behind, given its outcome; after the
\* last failed iteration the finally block and generateFallbackLevel follow.
AttemptRun(k, out, shuffled, now) ==
  LET call == calls[k]
      fallback == generateFallbackLevel(call.config.gridSize, call.config.wireCount,
                                        call.config.difficulty, shuffled, now)
  IN  IF out.status = "success"
      THEN /\ calls' = [calls EXCEPT ![k].phase = "returned",
                                     ![k].result = LevelDataOf(call.config, call.level, out.wires)]
           /\ seededRandom' = resetRandom(out.rng)
      ELSE IF out.status = "hang"
      THEN /\ calls' = [calls EXCEPT ![k].phase = "hung"]
           /\ seededRandom' = out.rng
      ELSE IF LoopContinues(call.attempt + 1)
      THEN /\ calls' = [calls EXCEPT ![k].phase = "loop", ![k].attempt = call.attempt + 1]
           /\ seededRandom' = out.rng
      ELSE /\ calls' = [calls EXCEPT ![k].phase = IF fallback.ok THEN "returned" ELSE "threw",
                                     ![k].attempt = call.attempt + 1,
                                     ![k].result = fallback.level]
           /\ seededRandom' = resetRandom(out.rng)

\* The body of an iteration after seedRandom: every draw goes to the shared
\* seededRandom.
RunAttempt ==
  /\ \E k \in 1..Len(calls) :
       /\ calls[k].phase = "seeded"
       /\ \E rng \in RandomSource(seededRandom), shuffled \in UnseededShuffles, now \in Times :
            AttemptRun(k, SolutionMade(calls[k].config.gridSize, calls[k].config.gridSize,
                                       generateCompleteSolution(calls[k].config.gridSize,
                                                                calls[k].config.gridSize,
                                                                calls[k].config.wireCount,
                                                                rng, shuffled)),
                       shuffled, now)
  /\ UNCHANGED <<config, levelNumber, pc, attempt, lastAttempt, levelData, previous,
                 gameVars, pathCall, levelMap, timers>>

\* generateLevel has returned to its caller: getLevel stores the level, evicts
\* and schedules the timer; the timer callback stores it and goes on with its
\* loop. A call that threw leaves its caller without storing anything.
Resume ==
  /\ \E k \in 1..Len(calls) :
       LET call == calls[k]
           stored == MapSet(levelMap, call.key, call.result)
           started == TimerCalls(stored, call.currentLevel, call.i + 1)
       IN  /\ call.phase \in {"returned", "threw"}
           /\ IF call.phase = "threw"
              THEN /\ calls' = Without(calls, k)
                   /\ UNCHANGED <<levelMap, timers, seededRandom>>
              ELSE IF call.task = "getLevel"
              THEN /\ Len(timers) < MaxTimers
                   /\ levelMap' = EvictOldest(stored)
                   /\ timers' = Append(timers, call.level)
                   /\ calls' = Without(calls, k)
                   /\ UNCHANGED seededRandom
              ELSE /\ levelMap' = stored
                   /\ calls' = IF started = <<>> THEN Without(calls, k)
                               ELSE [calls EXCEPT ![k] = started[1]]
                   /\ seededRandom' = IF started = <<>> THEN seededRandom
                                      ELSE BaseSeed(started[1].level)
                   /\ UNCHANGED timers
  /\ UNCHANGED <<config, levelNumber, pc, attempt, lastAttempt, levelData, previous, gameVars, pathCall>>

CacheNext == GetLevel \/ TimerFire \/ SeedAttempt \/ RunAttempt \/ Resume

CacheSpec == CacheInit /\ [][CacheNext]_vars

\* ------------------------------------------------------------ the cache after a long session
\* generateLevel(getGeneratorConfig(level), level) as a whole, when Math.random
\* leaves the palette in its order and Date.now() returns DateNowBase.
GeneratedOr(generatorConfig, level, out, otherwise) ==
  IF out.status = "success" THEN LevelDataOf(generatorConfig, level, out.wires) ELSE otherwise

RECURSIVE GenerateFrom(_, _, _)
GenerateFrom(generatorConfig, level, k) ==
  IF ~LoopContinues(k)
  THEN generateFallbackLevel(generatorConfig.gridSize, generatorConfig.wireCount, generatorConfig.difficulty,
                             allColors, DateNowBase).level
  ELSE GeneratedOr(generatorConfig, level, AttemptOutcome(generatorConfig, level, k, allColors),
                   GenerateFrom(generatorConfig, level, k + 1))

\* The level map after the player has loaded the levels 1..reached-1 in order
\* and every timer has run: the levels 1..reached+1, in the order of their
\* numbers, none evicted.
PlayedMap(reached) ==
  [level \in 1..(reached + 1) |->
     [key |-> CacheKey(getDifficultyForLevel(level), level),
      level |-> GenerateFrom(getGeneratorConfig(level), level, 0)]]

\* The player is about to load level CacheLimit - 1: the map holds CacheLimit levels.
LongSessionInit ==
  /\ config = Undefined
  /\ levelNumber = CacheLimit - 1
  /\ pc = "idle"
  /\ attempt = 0
  /\ seededRandom = NullRandom
  /\ lastAttempt = NoAttempt
  /\ levelData = Undefined
  /\ previous = Undefined
  /\ game = "none"
  /\ grid = <<>>
  /\ wires = <<>>
  /\ replayed = 0
  /\ conflict = FALSE
  /\ won = "unchecked"
  /\ levelMap = PlayedMap(CacheLimit - 1)
  /\ timers = <<>>
  /\ calls = <<>>
  /\ pathCall = Undefined

LongSessionSpec == LongSessionInit /\ [][CacheNext]_vars

\* ------------------------------------------------------------ the path builder called directly
\* Grid shapes, rectangles included.
Sides == 2..MaxSide

\* States of the random source when the path builder is called: a family of
\* non-negative seeds spread over the 31-bit range, in which every strategy,
\* every combination of the zigzag booleans, both spiral directions and every
\* snake band size and axis occur, and the attempt seeds of generateLevel.
SeedStride == 16
SpreadSeeds ==
  {[neg |-> FALSE, hi |-> k * SeedStride, lo |-> k] : k \in 0..MaxSeedIndex}
AttemptSeeds == {AttemptSeed(level, k) : level \in Levels, k \in 0..(maxAttempts - 1)}
PathSeeds == SpreadSeeds \cup AttemptSeeds

SegmentCounts == 1..MaxSegmentCount

PathInit ==
  /\ config = Undefined
  /\ levelNumber = 1
  /\ pc = "idle"
  /\ attempt = 0
  /\ seededRandom = NullRandom
  /\ lastAttempt = NoAttempt
  /\ levelData = Undefined
  /\ previous = Undefined
  /\ game = "none"
  /\ grid = <<>>
  /\ wires = <<>>
  /\ replayed = 0
  /\ conflict = FALSE
  /\ won = "unchecked"
  /\ levelMap = <<>>
  /\ timers = <<>>
  /\ calls = <<>>
  /\ \E rows \in Sides, cols \in Sides, seed \in PathSeeds :
       pathCall = [phase |-> "called", rows |-> rows, cols |-> cols, seed |-> seed,
                   built |-> Undefined, segmentCount |-> 0, parts |-> Undefined]

\* generateCompleteHamiltonianPath(rows, cols) with the random source in state seed.
BuildPath ==
  /\ pathCall # Undefined
  /\ pathCall.phase = "called"
  /\ pathCall' = [pathCall EXCEPT
                    !.phase = "built",
                    !.built = generateCompleteHamiltonianPath(pathCall.rows, pathCall.cols,
                                                              pathCall.seed)]
  /\ UNCHANGED <<config, levelNumber, generatorVars, gameVars, cacheVars>>

\* partitionPathIntoSegments(path, segmentCount) on the path just built, with the
\* random source as the path builder left it.
PartitionPath ==
  /\ pathCall # Undefined
  /\ pathCall.phase = "built"
  /\ ~pathCall.built.hang
  /\ \E segmentCount \in SegmentCounts :
       pathCall' = [pathCall EXCEPT
                      !.phase = "partitioned",
                      !.segmentCount = segmentCount,
                      !.parts = partitionPathIntoSegments(pathCall.built.path, segmentCount,
                                                          pathCall.built.rng)]
  /\ UNCHANGED <<config, levelNumber, generatorVars, gameVars, cacheVars>>

PathNext == BuildPath \/ PartitionPath

PathSpec == PathInit /\ [][PathNext]_vars

\* ------------------------------------------------------------ the shuffle called directly
\* The arrays handed to SeededRandom.shuffle: the first colours of the palette.
ShuffleInputs == {SubSeq(allColors, 1, n) : n \in 0..MaxArrayLength}

ShuffleInit ==
  /\ config = Undefined
  /\ levelNumber = 1
  /\ pc = "idle"
  /\ attempt = 0
  /\ seededRandom = NullRandom
  /\ lastAttempt = NoAttempt
  /\ levelData = Undefined
  /\ previous = Undefined
  /\ game = "none"
  /\ grid = <<>>
  /\ wires = <<>>
  /\ replayed = 0
  /\ conflict = FALSE
  /\ won = "unchecked"
  /\ levelMap = <<>>
  /\ timers = <<>>
  /\ calls = <<>>
  /\ \E array \in ShuffleInputs, seed \in PathSeeds :
       pathCall = [phase |-> "called", given |-> array, array |-> array, seed |-> seed,
                   shuffled |-> Undefined]

\* new SeededRandom(seed).shuffle(array): the loop works on the copy [...array],
\* the array of the caller is not written.
Shuffle ==
  /\ pathCall # Undefined
  /\ pathCall.phase = "called"
  /\ pathCall' = [pathCall EXCEPT
                    !.phase = "shuffled",
                    !.shuffled = SeededShuffle(pathCall.array, pathCall.seed).array]
  /\ UNCHANGED <<config, levelNumber, generatorVars, gameVars, cacheVars>>

ShuffleNext == Shuffle

ShuffleSpec == ShuffleInit /\ [][ShuffleNext]_vars

\* ------------------------------------------------------------ checkWinCondition called directly
\* The grids handed to checkWinCondition: rows x cols cells of which, in row
\* order, the first are obstacles, the next are EMPTY and the others carry the
\* path of wire 0.
BoardCell(index, obstacles, empties) ==
  IF index < obstacles
  THEN [state |-> "OBSTACLE", color |-> "null", wireId |-> <<>>, isPort |-> FALSE,
        connectedTo |-> <<>>]
  ELSE IF index < obstacles + empties
  THEN [state |-> "EMPTY", color |-> "null", wireId |-> <<>>, isPort |-> FALSE,
        connectedTo |-> <<>>]
  ELSE [state |-> "PATH", color |-> allColors[1], wireId |-> WireId(0), isPort |-> FALSE,
        connectedTo |-> <<>>]

Board(rows, cols, obstacles, empties) ==
  [c \in (0..(rows - 1)) \X (0..(cols - 1)) |->
     BoardCell(c[1] * cols + c[2], obstacles, empties)]

Boards ==
  {Board(rows, cols, obstacles, empties) :
     rows \in 1..MaxBoardSide, cols \in 1..MaxBoardSide,
     obstacles \in 0..MaxObstacles, empties \in 0..MaxEmptyCells}

\* Wire lists: wire k is complete or not.
BoardWire(index, isComplete) ==
  [id |-> WireId(index), color |-> allColors[index + 1], start |-> <<0, 0>>,
   end |-> <<0, 0>>, path |-> <<>>, isComplete |-> isComplete,
   requiredPathLength |-> <<>>]

WireLists ==
  UNION {{[k \in 1..n |-> BoardWire(k - 1, flags[k])] : flags \in [1..n -> BOOLEAN]} :
           n \in 0..MaxWires}

WinInit ==
  /\ config = Undefined
  /\ levelNumber = 1
  /\ pc = "idle"
  /\ attempt = 0
  /\ seededRandom = NullRandom
  /\ lastAttempt = NoAttempt
  /\ levelData = Undefined
  /\ previous = Undefined
  /\ game = "loaded"
  /\ grid \in Boards
  /\ wires \in WireLists
  /\ replayed = 0
  /\ conflict = FALSE
  /\ won = "unchecked"
  /\ levelMap = <<>>
  /\ timers = <<>>
  /\ calls = <<>>
  /\ pathCall = Undefined

WinSpec == WinInit /\ [][CheckWin]_vars

\* ------------------------------------------------------------ setWirePath called directly
\* The cells a grid can hold: an empty cell, an obstacle, and for each of the
\* two wires a port and a path cell.
CellKinds ==
  {[state |-> "EMPTY", color |-> "null", wireId |-> <<>>, isPort |-> FALSE,
    connectedTo |-> <<>>],
   [state |-> "OBSTACLE", color |-> "null", wireId |-> <<>>, isPort |-> FALSE,
    connectedTo |-> <<>>]}
  \cup {[state |-> "ENDPOINT", color |-> allColors[k + 1], wireId |-> WireId(k),
         isPort |-> TRUE, connectedTo |-> <<>>] : k \in 0..1}
  \cup {[state |-> "PATH", color |-> allColors[k + 1], wireId |-> WireId(k),
         isPort |-> FALSE, connectedTo |-> <<>>] : k \in 0..1}

\* Grids of one row, every cell of any kind.
Strips == UNION {[{0} \X (0..(cols - 1)) -> CellKinds] : cols \in 1..MaxStripCols}

\* The paths over the cells of a grid, repeated cells included.
PathsOver(cells) == UNION {[1..n -> cells] : n \in 0..MaxPathLength}

\* The two wires, from the first cell of the row to the last.
StripWire(index, cells) ==
  [id |-> WireId(index), color |-> allColors[index + 1], start |-> <<0, 0>>,
   end |-> <<0, Cardinality(cells) - 1>>, path |-> <<>>, isComplete |-> FALSE,
   requiredPathLength |-> <<>>]

DrawInit ==
  /\ config = Undefined
  /\ levelNumber = 1
  /\ pc = "idle"
  /\ attempt = 0
  /\ seededRandom = NullRandom
  /\ lastAttempt = NoAttempt
  /\ levelData = Undefined
  /\ previous = Undefined
  /\ game = "loaded"
  /\ grid \in Strips
  /\ wires = <<StripWire(0, DOMAIN grid), StripWire(1, DOMAIN grid)>>
  /\ replayed = 0
  /\ conflict = FALSE
  /\ won = "unchecked"
  /\ levelMap = <<>>
  /\ timers = <<>>
  /\ calls = <<>>
  /\ pathCall = Undefined

\* setWirePath(grid, wire, path): the engine takes the returned grid and wire;
\* the call works on newGrid, a copy of every cell, so the grid passed is not
\* written.
SetWirePath ==
  /\ game = "loaded"
  /\ pathCall = Undefined
  /\ \E k \in 1..Len(wires), path \in PathsOver(DOMAIN grid) :
       /\ grid' = setWirePath(grid, wires[k], path).grid
       /\ wires' = [wires EXCEPT ![k] = setWirePath(grid, wires[k], path).wire]
       /\ conflict' = setWirePath(grid, wires[k], path).conflict
       /\ pathCall' = [phase |-> "drawn", given |-> grid, passed |-> grid,
                       wire |-> wires[k], path |-> path]
  /\ UNCHANGED <<config, levelNumber, generatorVars, game, replayed, won, cacheVars>>

DrawSpec == DrawInit /\ [][SetWirePath]_vars

\* ------------------------------------------------------------ properties
GridCells == (0..(config.gridSize - 1)) \X (0..(config.gridSize - 1))
Terminated == pc \in {"success", "fallback", "threw"}
Adjacent(a, b) ==
  \/ a[1] = b[1] /\ (a[2] - b[2] = 1 \/ b[2] - a[2] = 1)
  \/ a[2] = b[2] /\ (a[1] - b[1] = 1 \/ b[1] - a[1] = 1)
Ports(wire) == {wire.start, wire.end}

\* C1: the solution paths of a LevelData returned by a successful attempt hold
\* every cell of the gridSize x gridSize grid exactly once: their lengths add up
\* to gridSize squared, and no coordinate occurs twice, in one path or in two.
C1_Coverage ==
  pc = "success" =>
    /\ SumLen(levelData.solution, 1) = config.gridSize * config.gridSize
    /\ \A i, j \in 1..Len(levelData.solution) :
         \A m \in 1..Len(levelData.solution[i]), n \in 1..Len(levelData.solution[j]) :
           levelData.solution[i][m] = levelData.solution[j][n] => (i = j /\ m = n)
    /\ UNION {Cells(levelData.solution[i]) : i \in 1..Len(levelData.solution)} = GridCells

C1_Witness ==
  /\ pc = "success"
  /\ config.gridSize >= 3
  /\ Len(levelData.solution) >= 2
  /\ lastAttempt.strategy = "spiral"

\* C2: a second call of generateLevel with the same config and levelNumber
\* returns the LevelData the first call returned (id, config, wires, solution).
C2_SameLevelData ==
  (Returned /\ previous # Undefined) => levelData = previous

\* C3: generateLevel returns a LevelData and never throws, whatever the config
\* (gridSize >= 2, wireCount >= 1) and the levelNumber.
C3_NeverThrows == pc # "threw"

\* C4: generateLevel ends after at most 10 attempts (indices 0 to 9) and at most
\* one fallback step; a failed attempt adds one to the attempt counter, a
\* successful attempt returns at once, and the fallback step is taken only
\* after attempt 9 has failed.
C4_BoundedAttempts ==
  /\ [](attempt \in 0..maxAttempts)
  /\ [](pc = "success" => (attempt < maxAttempts /\ lastAttempt.status = "success"))
  /\ [](pc \in {"fallback", "threw"} =>
          (attempt = maxAttempts /\ lastAttempt.status = "throw"))
  /\ [][/\ (pc = "attempting" /\ pc' = "attempting") => attempt' = attempt + 1
        /\ (pc = "attempting" /\ pc' = "success") => attempt' = attempt
        /\ Terminated => (pc' = pc /\ attempt' = attempt) \/ (pc' = "attempting" /\ attempt' = 0)
        /\ (pc' = "fallback" /\ pc # "fallback") =>
              (pc = "attempting" /\ attempt = maxAttempts)]_vars
  /\ (pc = "attempting" ~> Terminated)

C4_Witness ==
  /\ pc = "fallback"
  /\ attempt = maxAttempts
  /\ lastAttempt.status = "throw"

\* C5: in every LevelData generateLevel returns, generated or fallback, the
\* colours of the wires are pairwise distinct and no start or end of a wire is
\* a start or end of another wire.
C5_Unique ==
  Returned =>
    \A i, j \in 1..Len(levelData.wires) :
      i # j => /\ levelData.wires[i].color # levelData.wires[j].color
               /\ Ports(levelData.wires[i]) \cap Ports(levelData.wires[j]) = {}

C5_Witness ==
  /\ pc = "success"
  /\ Len(levelData.wires) >= 3

\* C6: in every LevelData generateLevel returns, every wire has a solution path
\* of at least 2 cells, and its start differs from its end.
C6_MinimumLength ==
  Returned =>
    /\ HasSolution(levelData)
    /\ \A i \in 1..Len(levelData.wires) :
         /\ i <= Len(levelData.solution)
         /\ Len(levelData.solution[i]) >= 2
         /\ levelData.wires[i].start # levelData.wires[i].end

\* C7: in a LevelData returned by a successful attempt, two consecutive
\* coordinates of a solution path are always grid-adjacent.
C7_Adjacency ==
  pc = "success" =>
    \A i \in 1..Len(levelData.solution) :
      \A k \in 1..(Len(levelData.solution[i]) - 1) :
        Adjacent(levelData.solution[i][k], levelData.solution[i][k + 1])

C7_Witness ==
  /\ pc = "success"
  /\ lastAttempt.strategy = "zigzag"
  /\ Len(levelData.solution) >= 2
  /\ \E i \in 1..Len(levelData.solution) :
       levelData.wires[i].start # lastAttempt.segments[i][1]

\* C8: replaying the solution of a LevelData returned by a successful attempt,
\* from the grid loadLevel builds, with setWirePath for wire i and solution[i]
\* in index order, meets no cell of another wire, completes every wire it has
\* replayed, and ends in a state where checkWinCondition returns true.
C8_ReplayWins ==
  (pc = "success" /\ game = "loaded") =>
    /\ ~conflict
    /\ \A k \in 1..replayed : wires[k].isComplete
    /\ replayed = Len(wires) => (checkWinCondition(grid, wires) /\ won # "no")

C8_Witness ==
  /\ pc = "success"
  /\ game = "loaded"
  /\ Len(wires) >= 2
  /\ replayed = Len(wires)
  /\ won = "yes"

\* C9: a LevelData returned by a successful attempt has config.wireCount wires
\* and config.wireCount solution paths.
C9_WireCount ==
  pc = "success" =>
    /\ Len(levelData.wires) = config.wireCount
    /\ Len(levelData.solution) = config.wireCount

\* C10: in a LevelData returned by a successful attempt, solution[i] is the
\* i-th segment of the covering path or its reverse, wires[i].start is the
\* first and wires[i].end the last coordinate of solution[i], neither is an
\* interior cell of it, and solution[i] has the cells of the segment.
C10_SegmentOrder ==
  pc = "success" =>
    \A i \in 1..Len(levelData.solution) :
      /\ i <= Len(lastAttempt.segments)
      /\ \/ levelData.solution[i] = lastAttempt.segments[i]
         \/ levelData.solution[i] = Reverse(lastAttempt.segments[i])
      /\ Cells(levelData.solution[i]) = Cells(lastAttempt.segments[i])
      /\ levelData.wires[i].start = levelData.solution[i][1]
      /\ levelData.wires[i].end = levelData.solution[i][Len(levelData.solution[i])]
      /\ \A k \in 2..(Len(levelData.solution[i]) - 1) :
           levelData.solution[i][k] \notin Ports(levelData.wires[i])

\* 0 <= seed / 4294967296 < 1 for the value next() returns in state s.
InUnitInterval(s) == ~s.neg \/ (s.hi = 0 /\ s.lo = 0)

\* C11: next() returns a value in [0, 1) and nextInt(min, max) an integer in
\* min..max, for every seed generateLevel hands to seedRandom: here the first
\* draw of the attempt about to run (the strategy index, nextInt(0, 2)) and the
\* last draw of the attempt that has just failed.
C11_DrawsInRange ==
  (pc = "attempting" /\ LoopContinues(attempt)) =>
    /\ InUnitInterval(SeededNext(AttemptSeed(levelNumber, attempt)))
    /\ SeededNextInt(SeededNext(AttemptSeed(levelNumber, attempt)), 0, 2) \in 0..2
    /\ attempt > 0 => InUnitInterval(seededRandom)

\* C12: the config getGeneratorConfig returns for a level of the game has
\* wireCount >= 1 and wireCount x minSegmentSize <= gridSize squared, with
\* minSegmentSize the partitioner's absoluteMinSize, so the partitioner's
\* up-front check accepts it.
C12_ConfigFeasible ==
  config # Undefined =>
    /\ config.wireCount >= 1
    /\ config.wireCount *
         AbsoluteMinSize(config.gridSize * config.gridSize, config.wireCount)
       <= config.gridSize * config.gridSize

C12_Witness ==
  /\ config # Undefined
  /\ levelNumber = TOTAL_LEVELS
  /\ config.gridSize = 12
  /\ config.wireCount = 14

\* The up-front check of partitionPathIntoSegments rejects the config.
Infeasible(c) ==
  c.gridSize * c.gridSize <
    c.wireCount * AbsoluteMinSize(c.gridSize * c.gridSize, c.wireCount)

\* C13: for a config with gridSize squared < wireCount x minSegmentSize every
\* attempt fails, none is reported as a success, and generateLevel returns the
\* fallback level after the tenth: it does not throw and does not loop.
C13_InfeasibleFallsBack ==
  (config # Undefined /\ Infeasible(config)) =>
    /\ pc \in {"idle", "attempting", "fallback"}
    /\ lastAttempt.status \in {"none", "throw"}
    /\ pc = "fallback" => attempt = maxAttempts

\* C14: generation requests never interleave on the shared random source. At
\* most one generateLevel call is in progress, and whenever a call is about to
\* run the body of an iteration the shared generator holds the seed that this
\* very call has set, whether getLevel or a pre-generation timer started it.
C14_NoInterleaving ==
  /\ Len(calls) <= 1
  /\ \A k \in 1..Len(calls) :
       calls[k].phase = "seeded" =>
         seededRandom = AttemptSeed(calls[k].level, calls[k].attempt)

\* A timer callback is generating while another callback is still pending and
\* the cache already holds a level that getLevel generated.
C14_Witness ==
  /\ Len(calls) = 1
  /\ calls[1].task = "timer"
  /\ calls[1].phase = "seeded"
  /\ timers # <<>>
  /\ levelMap # <<>>


\* C15: in every LevelData that generateLevel returns, generated or fallback,
\* the start and the end of every wire and every cell of every solution path
\* lie in rows 0..gridSize-1 and columns 0..gridSize-1.
C15_InBounds ==
  Returned =>
    /\ \A k \in 1..Len(levelData.wires) :
         levelData.wires[k].start \in GridCells /\ levelData.wires[k].end \in GridCells
    /\ HasSolution(levelData) =>
         \A k \in 1..Len(levelData.solution) :
           \A n \in 1..Len(levelData.solution[k]) : levelData.solution[k][n] \in GridCells

\* A generated level with two wires and a port in the last row or column.
C15_Witness ==
  /\ pc = "success"
  /\ Len(levelData.wires) >= 2
  /\ HasSolution(levelData)
  /\ \E k \in 1..Len(levelData.wires) :
       \E n \in 1..2 : levelData.wires[k].end[n] = config.gridSize - 1


\* C16: for every grid of at least 2 x 2 cells and every outcome of the random
\* draws, generateCompleteHamiltonianPath returns rows x cols coordinates in
\* which every cell of the grid appears exactly once and consecutive
\* coordinates are at Manhattan distance 1, and the zigzag fallback after the
\* de-duplication is not taken.
PathBuiltDirectly == pathCall # Undefined /\ pathCall.phase # "called"
C16_HamiltonianPath ==
  PathBuiltDirectly =>
    LET path == pathCall.built.path
    IN  /\ ~pathCall.built.hang
        /\ ~pathCall.built.deduplicated
        /\ Len(path) = pathCall.rows * pathCall.cols
        /\ \A row \in 0..(pathCall.rows - 1), col \in 0..(pathCall.cols - 1) :
             Cardinality({k \in 1..Len(path) : path[k] = <<row, col>>}) = 1
        /\ \A k \in 1..(Len(path) - 1) : Adjacent(path[k], path[k + 1])

\* A snake along the columns of a grid with more rows than columns, wide enough
\* for a band size above 2 to be drawn.
C16_Witness ==
  /\ PathBuiltDirectly
  /\ pathCall.built.strategy = "snake"
  /\ pathCall.rows = MaxSide
  /\ pathCall.cols < pathCall.rows
  /\ pathCall.built.path[2] = <<1, 0>>


\* C17: whenever partitionPathIntoSegments returns, for every state the random
\* source can be in during generation, it returns exactly segmentCount
\* segments, none of them empty, whose concatenation in order is the path.
RECURSIVE Concatenation(_, _)
Concatenation(seqs, k) ==
  IF k > Len(seqs) THEN <<>> ELSE seqs[k] \o Concatenation(seqs, k + 1)

PartitionReturned ==
  pathCall # Undefined /\ pathCall.phase = "partitioned" /\ pathCall.parts.ok

C17_PartitionReconstructs ==
  PartitionReturned =>
    /\ Len(pathCall.parts.segments) = pathCall.segmentCount
    /\ \A k \in 1..Len(pathCall.parts.segments) : pathCall.parts.segments[k] # <<>>
    /\ Concatenation(pathCall.parts.segments, 1) = pathCall.built.path


\* C18: in every LevelData returned by a successful attempt, whatever the level
\* and the attempt index, every wire's solution path has at least
\* minSegmentSize = max(4, floor(avgSize / 2)) cells, avgSize being gridSize
\* squared over wireCount.
C18_MinimumSegment ==
  pc = "success" =>
    \A k \in 1..Len(levelData.solution) :
      Len(levelData.solution[k]) >=
        AbsoluteMinSize(config.gridSize * config.gridSize, config.wireCount)


\* C19: every segment that partitionPathIntoSegments returns, the last one
\* included, has at most maxSegmentSize = floor(avgSize * 1.8) cells, where
\* avgSize is the path length over the segment count. Stated for a random
\* source whose draws are in range.
C19_MaximumSegment ==
  (PartitionReturned /\ ~pathCall.built.rng.neg) =>
    \A k \in 1..Len(pathCall.parts.segments) :
      10 * pathCall.segmentCount * Len(pathCall.parts.segments[k])
        <= 18 * Len(pathCall.built.path)


\* C20: when the path is shorter than segmentCount x minSegmentSize,
\* partitionPathIntoSegments raises its error before it draws a random number
\* and before it produces a segment: nothing is returned, no segment exists and
\* the random source is where the path builder left it.
TooShort ==
  Len(pathCall.built.path)
    < pathCall.segmentCount * AbsoluteMinSize(Len(pathCall.built.path), pathCall.segmentCount)

C20_FailsUpFront ==
  (pathCall # Undefined /\ pathCall.phase = "partitioned" /\ TooShort) =>
    /\ ~pathCall.parts.ok
    /\ pathCall.parts.segments = <<>>
    /\ pathCall.parts.rng = pathCall.built.rng

\* Three segments asked of the 9 cells of a 3 x 3 grid.
C20_Witness ==
  /\ pathCall # Undefined
  /\ pathCall.phase = "partitioned"
  /\ TooShort
  /\ pathCall.segmentCount = 3
  /\ Len(pathCall.built.path) = 9
  /\ pathCall.parts.error = "Cannot partition"


\* C21: in every LevelData that generateLevel returns for a wireCount of 1 to
\* 20, whatever the level and the attempt, the colour of every wire is one of
\* the 20 colours of the palette, never undefined.
Palette == {allColors[k] : k \in 1..Len(allColors)}

C21_PaletteColours ==
  (Returned /\ config.wireCount <= Len(allColors)) =>
    \A k \in 1..Len(levelData.wires) : levelData.wires[k].color \in Palette


\* C22: for every seed and every array, SeededRandom.shuffle returns an array of
\* the same length that holds every element of its input exactly once, and
\* leaves the input array as it was.
Shuffled == pathCall # Undefined /\ pathCall.phase = "shuffled"

C22_ShufflePermutes ==
  Shuffled =>
    /\ Len(pathCall.shuffled) = Len(pathCall.given)
    /\ \A k \in 1..Len(pathCall.given) :
         Cardinality({n \in 1..Len(pathCall.shuffled) :
                        pathCall.shuffled[n] = pathCall.given[k]}) = 1
    /\ pathCall.array = pathCall.given


\* C23: the fallback level returned after 10 failed attempts has exactly
\* min(wireCount, gridSize) wires, wire i running from (i, 0) to
\* (i, gridSize - 1); its config.wireCount is the number of its wires, and it
\* has no solution, so it claims no coverage of the grid.
C23_FallbackShape ==
  pc = "fallback" =>
    /\ attempt = maxAttempts
    /\ Len(levelData.wires) = Min(config.wireCount, config.gridSize)
    /\ \A k \in 1..Len(levelData.wires) :
         /\ levelData.wires[k].start = <<k - 1, 0>>
         /\ levelData.wires[k].end = <<k - 1, config.gridSize - 1>>
    /\ levelData.config.wireCount = Len(levelData.wires)
    /\ ~HasSolution(levelData)

\* A fallback level for more wires than the grid has rows.
C23_Witness ==
  /\ pc = "fallback"
  /\ config.wireCount > config.gridSize
  /\ config.gridSize >= 3
  /\ Len(levelData.wires) = config.gridSize


\* C24: after any sequence of getLevel calls and timer callbacks the level map
\* of the cache holds at most 50 entries.
C24_CacheLimit == Len(levelMap) <= CacheLimit


\* C25: every LevelData that generateLevel(config, levelNumber) returns,
\* generated or fallback, has its id equal to levelNumber.
C25_IdIsLevelNumber == Returned => levelData.id = levelNumber


\* C26: checkWinCondition(grid, wires) returns true exactly when every wire is
\* complete and every cell of the grid that is not an obstacle is not EMPTY, for
\* a grid of any size; a grid with an EMPTY cell is never reported as won.
EveryCellFilled ==
  \A c \in DOMAIN grid : grid[c].state # "OBSTACLE" => grid[c].state # "EMPTY"

C26_WinIffFilled ==
  (game = "loaded" /\ won # "unchecked") =>
    (won = "yes" <=> (areAllWiresComplete(wires) /\ EveryCellFilled))


\* C27: setWirePath(grid, wire, path) changes only cells that lie on the path,
\* are not ports and are not PATH cells of a different wire: every port, every
\* PATH cell of another wire and every cell off the path is the same in the
\* returned grid, and the grid that was passed is not modified.
Drawn == pathCall # Undefined /\ pathCall.phase = "drawn"

Protected(cell, wire) ==
  cell.isPort \/ (cell.state = "PATH" /\ cell.wireId # wire.id)

C28_RandomReset ==
  pc \in {"success", "fallback", "threw"} => seededRandom = NullRandom

\* generateLevel has thrown out of the fallback step after seeded attempts,
\* and the source is null.
C28_Witness ==
  /\ pc = "threw"
  /\ attempt = maxAttempts
  /\ lastAttempt.status = "throw"
  /\ seededRandom = NullRandom


\* C29: whenever the path has at least segmentCount x minSegmentSize cells
\* (segmentCount >= 1), partitionPathIntoSegments returns normally for every
\* state the random source can be in during generation: neither 'Invalid
\* segment range' nor 'Last segment too small' is raised.
C29_FeasibleReturns ==
  (/\ pathCall # Undefined
   /\ pathCall.phase = "partitioned"
   /\ pathCall.segmentCount >= 1
   /\ ~TooShort) => pathCall.parts.ok


\* C30: the geometry of a generated level is a function of (config,
\* levelNumber) alone. Whatever the unseeded random source returns, a pass of
\* the loop ends the same way with the same wire starts, ends and solution
\* paths, so two calls with the same arguments succeed on the same attempt
\* index or both fall back; a second call never hangs or throws after a first
\* one returned, and the two levels differ at most in the colours (and, for
\* the fallback, the id).
WireEnds(wireList) ==
  [k \in 1..Len(wireList) |-> <<wireList[k].start, wireList[k].end>>]

OutcomeGeometry(out) ==
  [status |-> out.status, ends |-> WireEnds(out.wires),
   solution |-> SolutionPaths(out.wires)]

C30_GeometrySeeded ==
  /\ (pc = "attempting" /\ LoopContinues(attempt)) =>
       Cardinality({OutcomeGeometry(AttemptOutcome(config, levelNumber, attempt, shuffled)) :
                      shuffled \in UnseededShuffles}) = 1
  /\ (previous # Undefined /\ pc # "attempting") =>
       /\ Returned
       /\ HasSolution(levelData) = HasSolution(previous)
       /\ HasSolution(levelData) =>
            /\ WireEnds(levelData.wires) = WireEnds(previous.wires)
            /\ levelData.solution = previous.solution

\* The second call has succeeded after a failed attempt, with the geometry of
\* the first call and other colours.
C30_Witness ==
  /\ pc = "success"
  /\ previous # Undefined
  /\ attempt >= 1
  /\ Len(levelData.wires) >= 2
  /\ WireEnds(levelData.wires) = WireEnds(previous.wires)
  /\ levelData.solution = previous.solution
  /\ levelData.wires # previous.wires

====
